---- MODULE Spec2Model ----
(***************************************************************************)
(* The type-level utilities of useful-typescript-types, modelled as the    *)
(* functions on type shapes that a TypeScript checker (strictNullChecks    *)
(* on, exactOptionalPropertyTypes off) computes from their definitions.    *)
(*                                                                         *)
(* A type is the SET of its union members ("atoms"); never is {}.  A       *)
(* string is a sequence of characters, so that joining keys with "." and   *)
(* splitting a path at its first "." are computed, not assumed.            *)
(***************************************************************************)
EXTENDS Integers, Sequences, FiniteSets

VARIABLES
  T,         \* the first type argument the alias is applied to
  util,      \* the alias applied ("none": T is declared, nothing applied yet)
  path,      \* the string type argument (Path / Key), a character sequence
  typeArgs,  \* the other type arguments, a sequence of types
  keys,      \* the key-set type argument (K of PartialBy)
  value,     \* a runtime value checked against the resulting type
  result,    \* the type the alias evaluates to
  frame,     \* the instantiation the checker is unfolding (step evaluation)
  depth,     \* the checker's instantiation depth
  status     \* "idle" | "running" | "done" | "tooDeep"

vars == <<T, util, path, typeArgs, keys, value, result, frame, depth, status>>

(***************************************************************************)
(* Bounds                                                                  *)
(***************************************************************************)
MaxDepth == 3              \* nesting depth of the object shapes
MaxPathKeys == 3           \* keys in a dot-notation path argument
MaxInstantiationDepth == 8 \* where the checker gives up an instantiation

(***************************************************************************)
(* Strings                                                                 *)
(***************************************************************************)
Foo == <<"f", "o", "o">>
Bar == <<"b", "a", "r">>
Baz == <<"b", "a", "z">>
Dot == <<".">>
UndefinedText == <<"u", "n", "d", "e", "f", "i", "n", "e", "d">>
NullText == <<"n", "u", "l", "l">>
AnyString == <<"${string}">>   \* the placeholder of the primitive string
AnyNumber == <<"${number}">>   \* the placeholder of the primitive number

(***************************************************************************)
(* Type atoms                                                              *)
(***************************************************************************)
Prim(n) == [kind |-> "prim", name |-> n]
StrLit(s) == [kind |-> "strlit", chars |-> s]
NumLit(s) == [kind |-> "numlit", chars |-> s]
Obj(p) == [kind |-> "obj", props |-> p]
Arr(t) == [kind |-> "array", elem |-> t]
RoArr(t) == [kind |-> "roarray", elem |-> t]
Tup(ts) == [kind |-> "tuple", elems |-> ts]
Fn(ps, r, ret) == [kind |-> "fn", params |-> ps, rest |-> r, returns |-> ret]
Ref(n) == [kind |-> "ref", name |-> n]

StringT == Prim("string")
NumberT == Prim("number")
BooleanT == Prim("boolean")
TrueT == Prim("true")
FalseT == Prim("false")
Undefined == Prim("undefined")
Null == Prim("null")
Void == Prim("void")
AnyT == Prim("any")
HiLit == StrLit(<<"h", "i">>)

\* A property key: a string-literal key, a numeric key, or (chars a
\* placeholder) the key of an index signature.
StrKey(s) == [num |-> FALSE, chars |-> s]
NumKey(s) == [num |-> TRUE, chars |-> s]
Zero == NumKey(<<"0">>)
Prop(t, o) == [type |-> t, optional |-> o]
NoProps == [k \in {} |-> Prop({}, FALSE)]
\* The object type with the one property k
One(k, p) == Obj([x \in {k} |-> p])
\* The object type with the two properties k1, k2
Two(k1, p1, k2, p2) == Obj([x \in {k1, k2} |-> IF x = k1 THEN p1 ELSE p2])

(***************************************************************************)
(* The self-referential JSON types                                         *)
(***************************************************************************)
JsonValue ==
  {StringT, NumberT, BooleanT, Ref("JsonObject"), Ref("JsonArray"), Null}

JsonObject ==
  Obj([k \in {StrKey(AnyString), NumKey(AnyNumber)} |-> Prop(JsonValue, FALSE)])

\* Of the members JsonArray inherits from Array<JsonValue>, the element
\* index signature and length.
JsonArray ==
  Two(NumKey(AnyNumber), Prop(JsonValue, FALSE),
      StrKey(<<"l", "e", "n", "g", "t", "h">>), Prop({NumberT}, FALSE))

\* The declaration an interface name refers to
Declared(n) == IF n = "JsonObject" THEN JsonObject ELSE JsonArray

(***************************************************************************)
(* What the checker computes for the operators the aliases are written in  *)
(***************************************************************************)
\* An atom with an interface reference replaced by its declaration
Struct(a) == IF a.kind = "ref" THEN Declared(a.name) ELSE a

\* a extends object
ExtendsObject(a) ==
  Struct(a).kind \in {"obj", "array", "roarray", "tuple", "fn"}

\* keyof a, for one union member.  The members a primitive or an array
\* inherits (length, toString, ...) are left out: no key or path of the
\* model spells one.
KeyOf(a) == IF Struct(a).kind = "obj" THEN DOMAIN Struct(a).props ELSE {}

\* K extends string
IsStringKey(k) == ~k.num

\* The type of the key K, as keyof T gives it
KeyType(k) == IF k.num THEN NumLit(k.chars) ELSE StrLit(k.chars)

\* T[K] for one union member that has the property: an optional
\* property reads as its type or undefined.
IndexedAccess(a, k) ==
  LET p == Struct(a).props[k]
  IN  p.type \cup (IF p.optional THEN {Undefined} ELSE {})

\* keyof t for a union: the keys every member has
KeyOfType(t) == {k \in UNION {KeyOf(a) : a \in t} : \A a \in t : k \in KeyOf(a)}

\* The key of t that the string literal s is assignable to: the literal
\* key itself, else a string index signature.
KeyFor(t, s) ==
  IF StrKey(s) \in KeyOfType(t) THEN {StrKey(s)}
  ELSE IF StrKey(AnyString) \in KeyOfType(t) THEN {StrKey(AnyString)}
  ELSE {}

\* The text a template literal type writes for a placeholder member
Text(a) ==
  CASE a.kind \in {"strlit", "numlit"} -> a.chars
    [] a = Undefined -> UndefinedText
    [] a = Null -> NullText
    [] a = NumberT -> AnyNumber
    [] OTHER -> AnyString

\* `${K}.${X}`: one string per member of X, none when X is never
Template(k, x) == {StrLit(k.chars \o Dot \o Text(a)) : a \in x}

\* { [K in keyof T]: F<K> }[keyof T] for one union member, F given as the
\* function f on the keys.  The mapped type is homomorphic in T, so it
\* keeps each property's ? modifier, and reading an optional property
\* adds undefined.
MappedIndexed(a, f) ==
  UNION {f[k] \cup (IF Struct(a).props[k].optional THEN {Undefined} ELSE {})
         : k \in KeyOf(a)}

(***************************************************************************)
(* ObjectPath<T>                                                           *)
(***************************************************************************)
RECURSIVE ObjectPath(_)
ObjectPath(t) ==
  UNION {IF ExtendsObject(a)
         THEN MappedIndexed(a,
                [k \in KeyOf(a) |->
                   IF IsStringKey(k)
                   THEN {KeyType(k)}
                          \cup Template(k, ObjectPath(IndexedAccess(a, k)))
                   ELSE {}])
         ELSE {}
         : a \in t}

(***************************************************************************)
(* ObjectPathContainsKey<T, Key>                                           *)
(***************************************************************************)
\* T[K] extends object, T[K] not a bare type parameter: the whole union
\* must be assignable.
AllExtendObject(t) == \A a \in t : ExtendsObject(a)

RECURSIVE ObjectPathContainsKey(_, _)
ObjectPathContainsKey(t, Key) ==
  UNION {MappedIndexed(a,
           [k \in KeyOf(a) |->
              IF AllExtendObject(IndexedAccess(a, k))
              THEN IF IsStringKey(k)
                   THEN Template(k, ObjectPathContainsKey(IndexedAccess(a, k), Key))
                          \cup (IF KeyFor(IndexedAccess(a, k), Key) # {}
                                THEN {KeyType(k)} ELSE {})
                   ELSE {}
              ELSE {}])
         : a \in t}

(***************************************************************************)
(* ValueAtObjectPath<T, Path>                                              *)
(***************************************************************************)
\* Path extends `${infer First}.${infer Rest}`: the position of the first
\* ".", 0 when there is none
FirstDot(p) ==
  IF \E i \in 1..Len(p) : p[i] = "."
  THEN CHOOSE i \in 1..Len(p) : p[i] = "." /\ \A j \in 1..(i - 1) : p[j] # "."
  ELSE 0
First(p) == SubSeq(p, 1, FirstDot(p) - 1)
Rest(p) == SubSeq(p, FirstDot(p) + 1, Len(p))

\* T[s] for a string s that extends keyof T
IndexType(t, s) ==
  UNION {IndexedAccess(a, k) : a \in t, k \in KeyFor(t, s)}

RECURSIVE ValueAtObjectPath(_, _)
ValueAtObjectPath(t, Path) ==
  IF FirstDot(Path) # 0
  THEN IF KeyFor(t, First(Path)) # {}
       THEN ValueAtObjectPath(IndexType(t, First(Path)), Rest(Path))
       ELSE {}
  ELSE IF KeyFor(t, Path) # {}
       THEN IndexType(t, Path)
       ELSE {}

(***************************************************************************)
(* DeepPartial<T>                                                          *)
(***************************************************************************)
\* T[P] extends Array<infer U>
AllArrays(t) == \A a \in t : a.kind \in {"array", "tuple"}
\* T[P] extends ReadonlyArray<infer U>
AllReadonlyArrays(t) == \A a \in t : a.kind \in {"array", "tuple", "roarray"}
\* The U inferred from the element types
Elements(t) ==
  UNION {IF a.kind = "tuple" THEN UNION {a.elems[i] : i \in DOMAIN a.elems}
         ELSE a.elem : a \in t}

RECURSIVE DeepPartial(_)
\* The conditional type that gives the property its type, applied to T[P]
DeepPartialOf(tp) ==
  IF AllArrays(tp) THEN {Arr(DeepPartial(Elements(tp)))}
  ELSE IF AllReadonlyArrays(tp) THEN {RoArr(DeepPartial(Elements(tp)))}
  ELSE IF AllExtendObject(tp) THEN DeepPartial(tp)
  ELSE tp

\* The mapped type is homomorphic in T: it is applied to each member of a
\* union, leaves a primitive as it is, maps an array's or tuple's element
\* types, and gives {} for a function type (which has no keys).
DeepPartial(t) ==
  UNION {CASE Struct(a).kind = "obj" ->
                {Obj([k \in KeyOf(a) |-> Prop(DeepPartialOf(IndexedAccess(a, k)), TRUE)])}
           [] a.kind = "array" -> {Arr(DeepPartialOf(a.elem) \cup {Undefined})}
           [] a.kind = "roarray" -> {RoArr(DeepPartialOf(a.elem) \cup {Undefined})}
           [] a.kind = "tuple" ->
                {Tup([i \in DOMAIN a.elems |-> DeepPartialOf(a.elems[i]) \cup {Undefined}])}
           [] a.kind = "fn" -> {Obj(NoProps)}
           [] OTHER -> {a}
         : a \in t}

(***************************************************************************)
(* RequiredProperties<T>                                                   *)
(***************************************************************************)
\* [K in keyof T]: T[K], the -? left out
RequiredPropWithoutMinus(p) == p

\* [K in keyof T]-?: T[K] for one property: -? takes the ? modifier off
\* and, from a property that had it, undefined out of its type.
RequiredProp(p) == Prop(IF p.optional THEN p.type \ {Undefined} ELSE p.type, FALSE)

RequiredProperties(t) ==
  UNION {IF ExtendsObject(a)
         THEN CASE Struct(a).kind = "obj" ->
                     {Obj([k \in KeyOf(a) |-> RequiredProp(Struct(a).props[k])])}
                [] a.kind = "fn" -> {Obj(NoProps)}
                [] OTHER -> {a}
         ELSE {}
         : a \in t}

(***************************************************************************)
(* PickKeysByValue<T, Type> and the aliases that fix Type                  *)
(***************************************************************************)
\* The global interfaces Function and Object
Global(n) == [kind |-> "global", name |-> n]

\* a is assignable to b, for union members
RECURSIVE AtomAssignable(_, _)
AtomAssignable(a, b) ==
  \/ a = b
  \/ b = AnyT
  \/ a.kind = "strlit" /\ b = StringT
  \/ a.kind = "numlit" /\ b = NumberT
  \/ a \in {TrueT, FalseT} /\ b = BooleanT
  \/ a = Undefined /\ b = Void
  \/ a.kind = "fn" /\ b = Global("Function")
  \/ a \notin {Undefined, Null, Void} /\ b = Global("Object")
  \/ /\ \/ a.kind = "array" /\ b.kind \in {"array", "roarray"}
        \/ a.kind = "roarray" /\ b.kind = "roarray"
     /\ \A x \in a.elem : \E y \in b.elem : AtomAssignable(x, y)

\* t extends u, t not a bare type parameter
Assignable(t, u) == \A a \in t : \E b \in u : AtomAssignable(a, b)

\* T is one object type.
PickKeysByValue(t, Type) ==
  UNION {MappedIndexed(a,
           [k \in KeyOf(a) |->
              IF Assignable(IndexedAccess(a, k), Type) THEN {KeyType(k)} ELSE {}])
         : a \in t}

PickFunctionKeys(t) == PickKeysByValue(t, {Global("Function")})
PickStringKeys(t) == PickKeysByValue(t, {StringT})
PickNumberKeys(t) == PickKeysByValue(t, {NumberT})
PickObjectKeys(t) == PickKeysByValue(t, {Global("Object")})
PickArrayKeys(t) == PickKeysByValue(t, {Arr({AnyT})})

(***************************************************************************)
(* PartialBy<T, K> = Omit<T, K> & Partial<Pick<T, K>>                      *)
(***************************************************************************)
\* Pick<T, K>: homomorphic in T, the properties K with their modifiers
Pick(a, K) == Obj([k \in K |-> a.props[k]])
\* Exclude<U, K>
Exclude(U, K) == U \ K
\* T in place of Omit<T, K>
OmitNothing(a, K) == a

\* Omit<T, K> = Pick<T, Exclude<keyof T, K>>
Omit(a, K) == Pick(a, Exclude(KeyOf(a), K))
\* Partial<T>
Partial(a) == Obj([k \in KeyOf(a) |-> Prop(a.props[k].type, TRUE)])
\* A & B for object types: a property of both has the types' common
\* members and is optional when it is so in both.
Intersection(a, b) ==
  Obj([k \in KeyOf(a) \cup KeyOf(b) |->
         IF k \in KeyOf(a) /\ k \in KeyOf(b)
         THEN Prop(a.props[k].type \cap b.props[k].type,
                   a.props[k].optional /\ b.props[k].optional)
         ELSE IF k \in KeyOf(a) THEN a.props[k] ELSE b.props[k]])

\* T is one object type (T extends object), K a set of its keys.
PartialBy(t, K) == {Intersection(Omit(a, K), Partial(Pick(a, K))) : a \in t}

(***************************************************************************)
(* Result<Success, Error = string>                                         *)
(***************************************************************************)
SuccessKey == StrKey(<<"s", "u", "c", "c", "e", "s", "s">>)
ValueKey == StrKey(<<"v", "a", "l", "u", "e">>)
ErrorKey == StrKey(<<"e", "r", "r", "o", "r">>)

\* success: boolean in both variants
ResultWithoutDiscriminant(Success, Error) ==
  {Two(SuccessKey, Prop({BooleanT}, FALSE), ValueKey, Prop(Success, FALSE)),
   Two(SuccessKey, Prop({BooleanT}, FALSE), ErrorKey, Prop(Error, FALSE))}

Result(Success, Error) ==
  {Two(SuccessKey, Prop({TrueT}, FALSE), ValueKey, Prop(Success, FALSE)),
   Two(SuccessKey, Prop({FalseT}, FALSE), ErrorKey, Prop(Error, FALSE))}

\* Result<Success>: Error takes its default
ResultOf(Success) == Result(Success, {StringT})

\* Runtime values
StrVal(s) == [kind |-> "string", text |-> s]
NumVal(n) == [kind |-> "number", num |-> n]
BoolVal(b) == [kind |-> "boolean", bool |-> b]
ObjVal(f) == [kind |-> "object", fields |-> f]

\* The value v is of the type t: of one of its members; of an object type
\* when it has every required property, each of the property's type.
RECURSIVE HasType(_, _)
HasType(v, t) ==
  \E a \in t :
    \/ a = AnyT
    \/ a = StringT /\ v.kind = "string"
    \/ a.kind = "strlit" /\ v = StrVal(a.chars)
    \/ a = NumberT /\ v.kind = "number"
    \/ a = BooleanT /\ v.kind = "boolean"
    \/ a = TrueT /\ v = BoolVal(TRUE)
    \/ a = FalseT /\ v = BoolVal(FALSE)
    \/ /\ a.kind = "obj"
       /\ v.kind = "object"
       /\ \A k \in DOMAIN a.props :
            IF k \in DOMAIN v.fields
            THEN HasType(v.fields[k], a.props[k].type)
            ELSE a.props[k].optional

(***************************************************************************)
(* Action<Type, Payload>                                                   *)
(***************************************************************************)
TypeKey == StrKey(<<"t", "y", "p", "e">>)
PayloadKey == StrKey(<<"p", "a", "y", "l", "o", "a", "d">>)

\* undefined | void | null
NoPayload == {Undefined, Void, Null}

\* The conditional type tested on the whole of Payload
ActionOfWholePayload(Type, Payload) ==
  IF Assignable(Payload, NoPayload)
  THEN {Two(TypeKey, Prop(Type, FALSE), PayloadKey, Prop(Payload, TRUE))}
  ELSE {Two(TypeKey, Prop(Type, FALSE), PayloadKey, Prop(Payload, FALSE))}

\* Payload is a bare type parameter, so the conditional type distributes
\* over the members of a union Payload, and is never for never.
Action(Type, Payload) ==
  {IF Assignable({a}, NoPayload)
   THEN Two(TypeKey, Prop(Type, FALSE), PayloadKey, Prop({a}, TRUE))
   ELSE Two(TypeKey, Prop(Type, FALSE), PayloadKey, Prop({a}, FALSE))
   : a \in Payload}

(***************************************************************************)
(* CallbackWithArgs<T = void, Args = any> = (...args: Args[]) => T         *)
(***************************************************************************)
CallbackWithArgs(R, Args) == {Fn(<<>>, <<Args>>, R)}

\* The type a function type gives its i-th argument: that of the i-th
\* parameter, past the parameters the element type of the rest parameter
ArgumentType(f, i) ==
  IF i <= Len(f.params) THEN f.params[i]
  ELSE IF f.rest # <<>> THEN f.rest[1]
  ELSE {}

(***************************************************************************)
(* The instantiations an alias asks for while it is evaluated: for each    *)
(* recursive alias, the arguments of the uses of itself in its body        *)
(***************************************************************************)
Frame(alias, t, text) == [alias |-> alias, type |-> t, text |-> text]

\* ObjectPath<T[K]>, for each string key K of each member that extends
\* object
ObjectPathUses(t) ==
  UNION {{Frame("ObjectPath", IndexedAccess(a, k), <<>>)
            : k \in {x \in KeyOf(a) : IsStringKey(x)}}
         : a \in {x \in t : ExtendsObject(x)}}

\* The use of the alias outside the test T[K] extends object
ObjectPathContainsKeyUsesUnguarded(t, Key) ==
  UNION {{Frame("ObjectPathContainsKey", IndexedAccess(a, k), Key)
            : k \in {x \in KeyOf(a) : IsStringKey(x)}}
         : a \in t}

\* ObjectPathContainsKey<T[K], Key>, for each string key K whose T[K]
\* extends object
ObjectPathContainsKeyUses(t, Key) ==
  UNION {{Frame("ObjectPathContainsKey", IndexedAccess(a, k), Key)
            : k \in {x \in KeyOf(a) :
                       AllExtendObject(IndexedAccess(a, x)) /\ IsStringKey(x)}}
         : a \in t}

\* ValueAtObjectPath<T[First], Rest>, when Path has a "." and First is a
\* key of T
ValueAtObjectPathUses(t, Path) ==
  IF FirstDot(Path) # 0 /\ KeyFor(t, First(Path)) # {}
  THEN {Frame("ValueAtObjectPath", IndexType(t, First(Path)), Rest(Path))}
  ELSE {}

\* DeepPartial<U> for a T[P] that is an array of U, DeepPartial<T[P]> for
\* one that extends object
DeepPartialUsesOf(tp) ==
  IF AllArrays(tp) \/ AllReadonlyArrays(tp)
  THEN {Frame("DeepPartial", Elements(tp), <<>>)}
  ELSE IF AllExtendObject(tp) THEN {Frame("DeepPartial", tp, <<>>)}
  ELSE {}

DeepPartialUses(t) ==
  UNION {CASE Struct(a).kind = "obj" ->
                UNION {DeepPartialUsesOf(IndexedAccess(a, k)) : k \in KeyOf(a)}
           [] a.kind \in {"array", "roarray"} -> DeepPartialUsesOf(a.elem)
           [] OTHER -> {}
         : a \in t}

Uses(f) ==
  CASE f.alias = "ObjectPath" -> ObjectPathUses(f.type)
    [] f.alias = "ObjectPathContainsKey" -> ObjectPathContainsKeyUses(f.type, f.text)
    [] f.alias = "ValueAtObjectPath" -> ValueAtObjectPathUses(f.type, f.text)
    [] f.alias = "DeepPartial" -> DeepPartialUses(f.type)
    [] OTHER -> {}

(***************************************************************************)
(* The type arguments the utilities are applied to                         *)
(***************************************************************************)
\* () => void
VoidFn == Fn(<<>>, <<>>, {Void})

\* Objects of primitives: the innermost level of a nested shape
NestProps == {Prop({a}, o) : a \in {StringT, HiLit}, o \in BOOLEAN}
LeafObjects ==
  {One(StrKey(k), p) : k \in {Bar, Baz}, p \in NestProps}
    \cup {Two(StrKey(Bar), p, StrKey(Baz), q) : p \in NestProps, q \in NestProps}

\* Objects nested d levels deep; a level is a required or optional
\* property under a string or a numeric key.
RECURSIVE NestedShapes(_)
NestedShapes(d) ==
  IF d <= 1 THEN LeafObjects
  ELSE {One(k, Prop({s}, o)) :
          k \in {StrKey(Foo), StrKey(Bar), Zero}, o \in BOOLEAN,
          s \in NestedShapes(d - 1)}

\* One-level objects over every kind of value
FlatProps ==
  {Prop(t, o) :
     t \in {{StringT}, {NumberT}, {StringT, Undefined}, {VoidFn},
            {Arr({StringT})}, {One(StrKey(Bar), Prop({StringT}, FALSE))}},
     o \in BOOLEAN}
FlatShapes ==
  {One(StrKey(Foo), p) : p \in FlatProps}
    \cup {Two(StrKey(Foo), p, StrKey(k), q) :
            p \in FlatProps, q \in FlatProps, k \in {Bar, Baz}}

\* Objects nested d levels deep through arrays, readonly arrays, optional
\* properties and unions with null / undefined
RECURSIVE DeepShapes(_)
DeepShapes(d) ==
  IF d <= 1
  THEN {One(StrKey(Bar), Prop({StringT}, FALSE)),
        One(StrKey(Bar), Prop({HiLit}, TRUE)),
        One(StrKey(Bar), Prop({Arr({StringT})}, FALSE))}
  ELSE {One(StrKey(Foo), p) :
          p \in UNION {{Prop({s}, TRUE), Prop({s, Null}, FALSE),
                        Prop({s, Undefined}, FALSE), Prop({Arr({s})}, FALSE),
                        Prop({RoArr({s})}, FALSE)} : s \in DeepShapes(d - 1)}}

\* Objects with the key "foo.bar", a key that has the path separator in
\* it: alone, beside a property foo that has a property bar, and nested
DottedKey == Foo \o Dot \o Bar
DottedShapes ==
  {One(StrKey(DottedKey), Prop({StringT}, o)) : o \in BOOLEAN}
    \cup {Two(StrKey(DottedKey), Prop({StringT}, FALSE),
              StrKey(Foo), Prop({One(StrKey(Bar), Prop({NumberT}, FALSE))}, o))
            : o \in BOOLEAN}
    \cup {One(StrKey(Baz), Prop({One(StrKey(DottedKey), Prop({StringT}, FALSE))}, o))
            : o \in BOOLEAN}

ObjectShapes ==
  FlatShapes \cup DottedShapes
    \cup UNION {NestedShapes(d) \cup DeepShapes(d) : d \in 1..MaxDepth}

\* The self-referential types, given by name
JsonShapes == {{Ref("JsonObject")}, {Ref("JsonArray")}, JsonValue}

\* The primitive types given as Success of Result and T of CallbackWithArgs
PrimitiveShapes == {{StringT}, {NumberT}}

\* The Type arguments of Action: "INCREMENT", "DECREMENT"
Increment == <<"I", "N", "C", "R", "E", "M", "E", "N", "T">>
Decrement == <<"D", "E", "C", "R", "E", "M", "E", "N", "T">>
ActionTypes == {{StrLit(Increment)}, {StrLit(Decrement)}}

Shapes ==
  {{s} : s \in ObjectShapes} \cup JsonShapes \cup PrimitiveShapes \cup ActionTypes

\* t is an object type, or a union of object types
IsObjectType(t) == t # {} /\ \A a \in t : a.kind = "obj"

\* t mentions an interface that refers to itself
RECURSIVE HasRef(_)
HasRef(t) ==
  \E a \in t :
    \/ a.kind = "ref"
    \/ a.kind = "obj" /\ \E k \in DOMAIN a.props : HasRef(a.props[k].type)
    \/ a.kind \in {"array", "roarray"} /\ HasRef(a.elem)

\* t has an array somewhere
RECURSIVE HasArray(_)
HasArray(t) ==
  \E a \in t :
    \/ a.kind \in {"array", "roarray", "tuple"}
    \/ a.kind = "obj" /\ \E k \in DOMAIN a.props : HasArray(a.props[k].type)

\* The keys a Key or Path argument is written with
PathKeys == {Foo, Bar, Baz}

\* k1.k2. ... .kn
RECURSIVE Join(_)
Join(ks) == IF Len(ks) = 1 THEN ks[1] ELSE ks[1] \o Dot \o Join(Tail(ks))

\* The Path arguments: up to MaxPathKeys keys in dot notation
Paths == {Join(ks) : ks \in UNION {[1..n -> PathKeys] : n \in 1..MaxPathKeys}}

\* The Type arguments of PickKeysByValue
FilterTypes ==
  {{StringT}, {NumberT}, {Global("Function")}, {Global("Object")}, {Arr({AnyT})}}

\* The Error arguments of Result
ErrorTypes == {{StringT}, {NumberT}}

\* The values checked against a Result type: objects of the fields
\* success, value and error, and a string
FieldValues ==
  {BoolVal(TRUE), BoolVal(FALSE), StrVal(<<"f", "o", "o">>), NumVal(101)}
Values ==
  {ObjVal(f) : f \in UNION {[S -> FieldValues] :
                              S \in SUBSET {SuccessKey, ValueKey, ErrorKey}}}
    \cup {StrVal(<<"f", "o", "o">>)}

\* The Args arguments of CallbackWithArgs
ArgsTypes ==
  {{Tup(<<{NumberT}, {StringT}>>)}, {Tup(<<{StringT}>>)}, {NumberT}, {AnyT}}

\* The Payload arguments of Action: primitives, an object, unions with
\* undefined / null, boolean as true | false, and never.  any is not among
\* them.
Payloads ==
  {{NumberT}, {StringT}, {Undefined}, {Void}, {Null}, {},
   {NumberT, Undefined}, {StringT, Null}, {Undefined, Null},
   {NumberT, StringT}, {TrueT, FalseT},
   {One(StrKey(Bar), Prop({StringT}, FALSE))},
   {One(StrKey(Bar), Prop({StringT}, FALSE)), Undefined}}

NoValue == [kind |-> "none"]
NoFrame == [alias |-> "none", type |-> {}, text |-> <<>>]

(***************************************************************************)
(* The state machine: a type is declared, then one alias is applied to it  *)
(***************************************************************************)
Init ==
  /\ T \in Shapes
  /\ util = "none"
  /\ path = <<>>
  /\ typeArgs = <<>>
  /\ keys = {}
  /\ value = NoValue
  /\ result = {}
  /\ frame = NoFrame
  /\ depth = 0
  /\ status = "idle"

\* type R = ObjectPath<T>, T built of objects and primitives
ApplyObjectPath ==
  /\ util = "none" /\ status = "idle"
  /\ ~HasRef(T) /\ ~HasArray(T)
  /\ util' = "ObjectPath"
  /\ result' = ObjectPath(T)
  /\ UNCHANGED <<T, path, typeArgs, keys, value, frame, depth, status>>

\* type R = ObjectPathContainsKey<T, Key>
ApplyObjectPathContainsKey ==
  /\ util = "none" /\ status = "idle"
  /\ IsObjectType(T) /\ ~HasRef(T) /\ ~HasArray(T)
  /\ \E Key \in PathKeys :
       /\ path' = Key
       /\ result' = ObjectPathContainsKey(T, Key)
  /\ util' = "ObjectPathContainsKey"
  /\ UNCHANGED <<T, typeArgs, keys, value, frame, depth, status>>

\* type R = ValueAtObjectPath<T, Path>
ApplyValueAtObjectPath ==
  /\ util = "none" /\ status = "idle"
  /\ IsObjectType(T) /\ ~HasRef(T) /\ ~HasArray(T)
  /\ \E Path \in Paths :
       /\ path' = Path
       /\ result' = ValueAtObjectPath(T, Path)
  /\ util' = "ValueAtObjectPath"
  /\ UNCHANGED <<T, typeArgs, keys, value, frame, depth, status>>

\* type R = DeepPartial<T>
ApplyDeepPartial ==
  /\ util = "none" /\ status = "idle"
  /\ ~HasRef(T)
  /\ util' = "DeepPartial"
  /\ result' = DeepPartial(T)
  /\ UNCHANGED <<T, path, typeArgs, keys, value, frame, depth, status>>

\* type R = RequiredProperties<T>
ApplyRequiredProperties ==
  /\ util = "none" /\ status = "idle"
  /\ ~HasRef(T)
  /\ util' = "RequiredProperties"
  /\ result' = RequiredProperties(T)
  /\ UNCHANGED <<T, path, typeArgs, keys, value, frame, depth, status>>

\* type R = PickKeysByValue<T, Type>
ApplyPickKeysByValue ==
  /\ util = "none" /\ status = "idle"
  /\ IsObjectType(T) /\ ~HasRef(T)
  /\ \E Type \in FilterTypes :
       /\ typeArgs' = <<Type>>
       /\ result' = PickKeysByValue(T, Type)
  /\ util' = "PickKeysByValue"
  /\ UNCHANGED <<T, path, keys, value, frame, depth, status>>

\* type R = PickStringKeys<T>, PickNumberKeys<T>, ...
ApplyPickAlias ==
  /\ util = "none" /\ status = "idle"
  /\ IsObjectType(T) /\ ~HasRef(T)
  /\ \E alias \in {"PickFunctionKeys", "PickStringKeys", "PickNumberKeys",
                   "PickObjectKeys", "PickArrayKeys"} :
       /\ util' = alias
       /\ result' = CASE alias = "PickFunctionKeys" -> PickFunctionKeys(T)
                      [] alias = "PickStringKeys" -> PickStringKeys(T)
                      [] alias = "PickNumberKeys" -> PickNumberKeys(T)
                      [] alias = "PickObjectKeys" -> PickObjectKeys(T)
                      [] alias = "PickArrayKeys" -> PickArrayKeys(T)
  /\ UNCHANGED <<T, path, typeArgs, keys, value, frame, depth, status>>

\* type R = PartialBy<T, K>, K extends keyof T
ApplyPartialBy ==
  /\ util = "none" /\ status = "idle"
  /\ IsObjectType(T) /\ ~HasRef(T)
  /\ \E K \in SUBSET KeyOfType(T) :
       /\ keys' = K
       /\ result' = PartialBy(T, K)
  /\ util' = "PartialBy"
  /\ UNCHANGED <<T, path, typeArgs, value, frame, depth, status>>

\* type R = Result<T, Error> or Result<T>; const value: R
ApplyResult ==
  /\ util = "none" /\ status = "idle"
  /\ T \in PrimitiveShapes
  /\ \/ \E Error \in ErrorTypes :
          /\ typeArgs' = <<Error>>
          /\ result' = Result(T, Error)
     \/ /\ typeArgs' = <<>>
        /\ result' = ResultOf(T)
  /\ value' \in Values
  /\ util' = "Result"
  /\ UNCHANGED <<T, path, keys, frame, depth, status>>

\* type R = CallbackWithArgs<T, Args>
ApplyCallbackWithArgs ==
  /\ util = "none" /\ status = "idle"
  /\ T \in PrimitiveShapes
  /\ \E Args \in ArgsTypes :
       /\ typeArgs' = <<Args>>
       /\ result' = CallbackWithArgs(T, Args)
  /\ util' = "CallbackWithArgs"
  /\ UNCHANGED <<T, path, keys, value, frame, depth, status>>

\* type R = Action<T, Payload>
ApplyAction ==
  /\ util = "none" /\ status = "idle"
  /\ T \in ActionTypes
  /\ \E Payload \in Payloads :
       /\ typeArgs' = <<Payload>>
       /\ result' = Action(T, Payload)
  /\ util' = "Action"
  /\ UNCHANGED <<T, path, keys, value, frame, depth, status>>

\* The checker starts to evaluate a recursive alias applied to T.
Instantiate ==
  /\ util = "none" /\ status = "idle"
  /\ \/ /\ ~HasArray(T) /\ T \notin PrimitiveShapes \cup ActionTypes
        /\ \/ frame' = Frame("ObjectPath", T, <<>>)
           \/ \E Key \in PathKeys : frame' = Frame("ObjectPathContainsKey", T, Key)
           \/ \E Path \in Paths : frame' = Frame("ValueAtObjectPath", T, Path)
     \/ frame' = Frame("DeepPartial", T, <<>>)
  /\ depth' = 1
  /\ status' = "running"
  /\ UNCHANGED <<T, util, path, typeArgs, keys, value, result>>

\* It evaluates a use of the alias in the alias's body, one level deeper.
Descend ==
  /\ status = "running"
  /\ depth < MaxInstantiationDepth
  /\ \E f \in Uses(frame) : frame' = f
  /\ depth' = depth + 1
  /\ UNCHANGED <<T, util, path, typeArgs, keys, value, result, status>>

\* The body has no use of the alias left to evaluate: it yields its type.
Return ==
  /\ status = "running"
  /\ Uses(frame) = {}
  /\ status' = "done"
  /\ UNCHANGED <<T, util, path, typeArgs, keys, value, result, frame, depth>>

\* The instantiation is as deep as the checker goes: it reports "Type
\* instantiation is excessively deep and possibly infinite".
GiveUp ==
  /\ status = "running"
  /\ depth = MaxInstantiationDepth
  /\ Uses(frame) # {}
  /\ status' = "tooDeep"
  /\ UNCHANGED <<T, util, path, typeArgs, keys, value, result, frame, depth>>

Next ==
  \/ ApplyObjectPath
  \/ ApplyObjectPathContainsKey
  \/ ApplyValueAtObjectPath
  \/ ApplyDeepPartial
  \/ ApplyRequiredProperties
  \/ ApplyPickKeysByValue
  \/ ApplyPickAlias
  \/ ApplyPartialBy
  \/ ApplyResult
  \/ ApplyCallbackWithArgs
  \/ ApplyAction
  \/ Instantiate
  \/ Descend
  \/ Return
  \/ GiveUp

Spec == Init /\ [][Next]_vars

(***************************************************************************)
(* What the claims are stated with                                         *)
(***************************************************************************)
\* The object types among the members of t
Objects(t) == {a \in t : a.kind = "obj"}

\* The string keys of an object type
StringKeys(a) == {k \in DOMAIN a.props : ~k.num}

\* The chains k1, ..., kn of string keys that exist in t: k1 is a key of
\* t and every next key is a key of the object reached by the keys before
RECURSIVE KeyChains(_)
KeyChains(t) ==
  UNION {UNION {{<<k.chars>>}
                  \cup {<<k.chars>> \o c : c \in KeyChains(a.props[k].type)}
                : k \in StringKeys(a)}
         : a \in Objects(t)}

\* The value type found by following the keys ks from t; never when a key
\* does not exist at its level
RECURSIVE Follow(_, _)
Follow(t, ks) ==
  IF ks = <<>> THEN t
  ELSE LET holders == {a \in Objects(t) : StrKey(Head(ks)) \in DOMAIN a.props}
       IN  Follow(UNION {IndexedAccess(a, StrKey(Head(ks))) : a \in holders},
                  Tail(ks))

\* The keys of a path in dot notation
RECURSIVE Split(_)
Split(p) == IF FirstDot(p) = 0 THEN <<p>> ELSE <<First(p)>> \o Split(Rest(p))

\* T = { foo: { bar: string, baz: string } }
FooBarBaz ==
  {One(StrKey(Foo),
       Prop({Two(StrKey(Bar), Prop({StringT}, FALSE),
                 StrKey(Baz), Prop({StringT}, FALSE))}, FALSE))}

\* T = { foo: { bar: { baz: "hi" } } }
FooBarBazHi ==
  {One(StrKey(Foo),
       Prop({One(StrKey(Bar),
                 Prop({One(StrKey(Baz), Prop({HiLit}, FALSE))}, FALSE))}, FALSE))}

(***************************************************************************)
(* C1: ObjectPath<T> is exactly the set of the dot-joined key chains that  *)
(* exist in T, and has no other member (no undefined, no chain through a   *)
(* non-object), also when properties of T are optional.                    *)
(***************************************************************************)
\* Every key of every object of t is a string key
RECURSIVE StringKeyed(_)
StringKeyed(t) ==
  \A a \in Objects(t) :
    \A k \in DOMAIN a.props : ~k.num /\ StringKeyed(a.props[k].type)

C1_ObjectPathIsTheKeyChains ==
  util = "ObjectPath" /\ StringKeyed(T)
    => result = {StrLit(Join(c)) : c \in KeyChains(T)}

(***************************************************************************)
(* C2: DeepPartial<T> has the keys and the primitive leaf types of T, and  *)
(* every property at every depth is optional, in array elements and under  *)
(* optional or nullable properties too.                                    *)
(***************************************************************************)
\* Every property of every object of t is optional, at every depth
RECURSIVE EveryPropertyOptional(_)
EveryPropertyOptional(t) ==
  \A a \in t :
    /\ a.kind = "obj" =>
         \A k \in DOMAIN a.props :
           a.props[k].optional /\ EveryPropertyOptional(a.props[k].type)
    /\ a.kind \in {"array", "roarray"} => EveryPropertyOptional(a.elem)

\* t without its ? modifiers and the undefined they read as
RECURSIVE Skeleton(_)
Skeleton(t) ==
  {CASE a.kind = "obj" ->
          Obj([k \in DOMAIN a.props |-> Prop(Skeleton(a.props[k].type), FALSE)])
     [] a.kind = "array" -> Arr(Skeleton(a.elem))
     [] a.kind = "roarray" -> RoArr(Skeleton(a.elem))
     [] OTHER -> a
   : a \in t \ {Undefined}}

\* t is built from objects, arrays, readonly arrays and primitives
RECURSIVE BuiltOfObjectsAndArrays(_)
BuiltOfObjectsAndArrays(t) ==
  \A a \in t :
    /\ a.kind \notin {"fn", "tuple"}
    /\ a.kind = "obj" =>
         \A k \in DOMAIN a.props : BuiltOfObjectsAndArrays(a.props[k].type)
    /\ a.kind \in {"array", "roarray"} => BuiltOfObjectsAndArrays(a.elem)

C2_DeepPartialMakesEveryDepthOptional ==
  util = "DeepPartial" /\ BuiltOfObjectsAndArrays(T) =>
    /\ Skeleton(result) = Skeleton(T)
    /\ EveryPropertyOptional(result)

(***************************************************************************)
(* C3: PickKeysByValue<T, Type> is exactly the set of the keys of T whose  *)
(* value type is assignable to Type, with no other member; the Pick...Keys *)
(* aliases are that filter for string, number, Function, Object, Array.    *)
(***************************************************************************)
KeysWithValue(t, Type) ==
  UNION {{KeyType(k) : k \in {x \in DOMAIN a.props :
                                Assignable(IndexedAccess(a, x), Type)}}
         : a \in Objects(t)}

AliasType(alias) ==
  CASE alias = "PickFunctionKeys" -> {Global("Function")}
    [] alias = "PickStringKeys" -> {StringT}
    [] alias = "PickNumberKeys" -> {NumberT}
    [] alias = "PickObjectKeys" -> {Global("Object")}
    [] alias = "PickArrayKeys" -> {Arr({AnyT})}

C3_PickKeysByValueIsTheMatchingKeys ==
  /\ util = "PickKeysByValue" => result = KeysWithValue(T, typeArgs[1])
  /\ util \in {"PickFunctionKeys", "PickStringKeys", "PickNumberKeys",
               "PickObjectKeys", "PickArrayKeys"}
       => result = KeysWithValue(T, AliasType(util))

(***************************************************************************)
(* C4 as claimed: RequiredProperties<T> has exactly the keys of T, every   *)
(* property required, each with the value type declared for it in T, an    *)
(* optional property declared with undefined included.                     *)
(***************************************************************************)
C4_RequiredKeepsEveryValueType ==
  util = "RequiredProperties" /\ IsObjectType(T) =>
    \A a \in T :
      \E r \in result :
        /\ result = {r}
        /\ DOMAIN r.props = DOMAIN a.props
        /\ \A k \in DOMAIN a.props :
             ~r.props[k].optional /\ r.props[k].type = a.props[k].type

(***************************************************************************)
(* C4 as amended: RequiredProperties<T> has exactly the keys of T and      *)
(* every property required; a property that is required in T keeps its     *)
(* value type, and one that is optional in T gets its declared value type  *)
(* without undefined.                                                      *)
(***************************************************************************)
C4_RequiredDropsUndefinedOfOptional ==
  util = "RequiredProperties" /\ IsObjectType(T) =>
    \A a \in T :
      \E r \in result :
        /\ result = {r}
        /\ DOMAIN r.props = DOMAIN a.props
        /\ \A k \in DOMAIN a.props :
             /\ ~r.props[k].optional
             /\ ~a.props[k].optional => r.props[k].type = a.props[k].type
             /\ a.props[k].optional =>
                  r.props[k].type = a.props[k].type \ {Undefined}

\* RequiredProperties<{ foo?: string | undefined }> is { foo: string }
C4_Witness ==
  /\ util = "RequiredProperties"
  /\ T = {One(StrKey(Foo), Prop({StringT, Undefined}, TRUE))}
  /\ result = {One(StrKey(Foo), Prop({StringT}, FALSE))}

(***************************************************************************)
(* C5: ValueAtObjectPath<T, k1.k2. ... .kn> is the value type found by     *)
(* following k1, ..., kn from T when each key exists at its level, and     *)
(* never when one does not.                                                *)
(***************************************************************************)
C5_ValueAtObjectPathFollowsTheKeys ==
  util = "ValueAtObjectPath" /\ StringKeyed(T)
    => result = Follow(T, Split(path))

(***************************************************************************)
(* C6: ObjectPathContainsKey<T, Key> is exactly the set of the dot-joined  *)
(* paths of the nested objects of T that have Key as a direct property.    *)
(***************************************************************************)
\* The chains of t that lead to an object with the property Key
ChainsToHolders(t, Key) ==
  {c \in KeyChains(t) :
     \E a \in Objects(Follow(t, c)) : StrKey(Key) \in DOMAIN a.props}

C6_ContainsKeyIsThePathsOfTheHolders ==
  util = "ObjectPathContainsKey" /\ StringKeyed(T)
    => result = {StrLit(Join(c)) : c \in ChainsToHolders(T, path)}

(***************************************************************************)
(* C7: PartialBy<T, K> has exactly the keys of T; a key in K is optional   *)
(* with the value type it has in T, a key not in K keeps its value type    *)
(* and its required / optional status.                                     *)
(***************************************************************************)
C7_PartialByMakesOnlyKOptional ==
  util = "PartialBy" =>
    \A a \in T :
      \E r \in result :
        /\ result = {r}
        /\ DOMAIN r.props = DOMAIN a.props
        /\ \A k \in DOMAIN a.props :
             /\ k \in keys =>
                  r.props[k].optional /\ r.props[k].type = a.props[k].type
             /\ k \notin keys => r.props[k] = a.props[k]

\* PartialBy<{ foo: string, bar: string }, "foo"> is
\* { foo?: string, bar: string }
C7_Witness ==
  /\ util = "PartialBy"
  /\ T = {Two(StrKey(Foo), Prop({StringT}, FALSE),
              StrKey(Bar), Prop({StringT}, FALSE))}
  /\ keys = {StrKey(Foo)}
  /\ result = {Two(StrKey(Foo), Prop({StringT}, TRUE),
                   StrKey(Bar), Prop({StringT}, FALSE))}

(***************************************************************************)
(* C8: a value is of the type Result<Success, Error> exactly when it is    *)
(* { success: true, value: v } with v of type Success or                   *)
(* { success: false, error: e } with e of type Error, so the success       *)
(* field alone tells the variants apart; Error is string when not given.   *)
(***************************************************************************)
HasField(v, k, t) ==
  v.kind = "object" /\ k \in DOMAIN v.fields /\ HasType(v.fields[k], t)

\* The Error a Result<T, ...> was given, string when it was given none
ErrorGiven == IF typeArgs = <<>> THEN {StringT} ELSE typeArgs[1]

C9_CallbackTakesTheArgsInOrder ==
  util = "CallbackWithArgs" =>
    \A f \in result :
      /\ f.returns = T
      /\ \A a \in typeArgs[1] :
           a.kind = "tuple" =>
             \A i \in DOMAIN a.elems : ArgumentType(f, i) = a.elems[i]

Max(S) == IF S = {} THEN 0 ELSE CHOOSE m \in S : \A x \in S : x <= m

\* The number of object levels of t
RECURSIVE Nesting(_)
Nesting(t) ==
  Max({CASE a.kind = "obj" ->
              1 + Max({Nesting(a.props[k].type) : k \in DOMAIN a.props})
         [] a.kind \in {"array", "roarray"} -> Nesting(a.elem)
         [] OTHER -> 0
       : a \in t})

ChainsSpelled(t, s) == {c \in KeyChains(t) : Join(c) = s}

\* ValueAtObjectPath resolves every path that ObjectPath lists
EveryObjectPathIsResolved(t) ==
  \A p \in ObjectPath(t) :
    p.kind = "strlit" /\ ChainsSpelled(t, p.chars) # {} =>
      /\ ValueAtObjectPath(t, p.chars) # {}
      /\ \E c \in ChainsSpelled(t, p.chars) :
           ValueAtObjectPath(t, p.chars) = Follow(t, c)

C11_ObjectPathAndValueAtObjectPathAgree ==
  /\ util = "ObjectPath" /\ IsObjectType(T) => EveryObjectPathIsResolved(T)
  /\ util = "ValueAtObjectPath" /\ result # {} => StrLit(path) \in ObjectPath(T)

(***************************************************************************)
(* C12: every member of Action<Type, Payload> has exactly the fields type  *)
(* and payload, type required and of type Type; Action<Type, Payload> has  *)
(* one member for each member of the union Payload: with an optional       *)
(* payload of that member's type when the member is undefined, void or     *)
(* null, and with a required payload of that member's type otherwise.  So  *)
(* Action<Type, A | undefined> is { type: Type, payload: A } |             *)
(* { type: Type, payload?: undefined }.  Payload ranges over the types     *)
(* other than any.                                                         *)
(***************************************************************************)
\* The member of Action<Type, Payload> that the rule gives for the member
\* a of Payload
ActionFor(Type, a) ==
  [kind |-> "obj",
   props |-> [k \in {TypeKey, PayloadKey} |->
                IF k = TypeKey THEN [type |-> Type, optional |-> FALSE]
                ELSE [type |-> {a}, optional |-> a \in {Undefined, Void, Null}]]]

====
